---------------------------- MODULE Spec2Model ----------------------------
(***************************************************************************)
(* A model of the Brainfuck engine of bfrepl (src/src/interpreter.rs) and  *)
(* of the way the terminal application drives it (src/src/main.rs).        *)
(*                                                                         *)
(* Instruction bytes are one-character strings.  Vectors are sequences;    *)
(* the source indexes from 0, so element i of a Vec v is v[i + 1] here     *)
(* (operator At).  A Rust panic ends the process: it is recorded in the    *)
(* field "panic" and no operation is possible afterwards.                  *)
(***************************************************************************)
EXTENDS Integers, Sequences, FiniteSets, TLC

(***************************************************************************)
(* Bounds of the model.                                                    *)
(*   MemLen     the tape length BFInt::new() allocates.  The source        *)
(*              allocates 1000 cells (interpreter.rs:15); the model keeps  *)
(*              the same shape with a short tape so that the end of the    *)
(*              tape is within reach of the explored runs.                 *)
(*   MaxProgLen the longest program the driver builds.                     *)
(*   MaxExtends the number of extend_prog calls the driver makes.          *)
(*   MaxOut     the number of bytes printed before the driver stops.       *)
(*   RunFuel    the number of iterations of run()'s loop that are followed *)
(*              (a longer run is marked as not having returned).           *)
(*   ArithLen   the longest program of "+" and "-" drawn for the           *)
(*              arithmetic runs.                                           *)
(***************************************************************************)
MemLen == 2
MaxProgLen == 7
MaxExtends == 3
MaxOut == 2
RunFuel == 64
ArithLen == 5

(* usize::MAX.  The model checker's integers are 32 bits wide, so the      *)
(* largest of them stands for the largest usize; all that the model uses   *)
(* of it is that it is no valid index and that adding 1 to it overflows.   *)
UsizeMax == 2147483647

(* u8 arithmetic is modulo 256.                                            *)
U8Mod == 256

VARIABLES
    interp,           \* App.interp: the BFInt, with the process's stdout and panic
    whole,            \* a second BFInt, used where two engines are compared
    overflow_checks,  \* the build profile: TRUE in debug builds, FALSE in release
    n_extend,         \* how many extend_prog calls the driver has made
    last,             \* the last operation, its argument and the object before it
    command_field     \* App.command_field: the TextEntry, with the process's panic

vars == <<interp, whole, overflow_checks, n_extend, last, command_field>>

At(v, i) == v[i + 1]

Last(s) == s[Len(s)]

Front(s) == SubSeq(s, 1, Len(s) - 1)

(* BFInt::new(), in a process that has printed nothing and not panicked.   *)
New ==
    [prog      |-> <<>>,
     prog_ptr  |-> 0,
     mem       |-> [i \in 1..MemLen |-> 0],
     mem_ptr   |-> 0,
     loop_map  |-> <<>>,
     stdout    |-> <<>>,
     panic     |-> "none"]

(* Option::unwrap() on None, Vec indexing out of bounds, todo!() and, in   *)
(* a build with overflow checks, arithmetic overflow all panic.            *)
Panic(e, why) == [e EXCEPT !.panic = why]

(***************************************************************************)
(* extend_loop_map: the while loop, from the local pc and start_stack.     *)
(***************************************************************************)
RECURSIVE ScanFrom(_, _, _)
ScanFrom(e, pc, start_stack) ==
    IF ~(pc < Len(e.prog)) THEN e
    ELSE IF At(e.prog, pc) = "["
         THEN ScanFrom(e, pc + 1, Append(start_stack, pc + e.prog_ptr))
    ELSE IF At(e.prog, pc) = "]"
         THEN IF start_stack = <<>>
              THEN Panic(e, "unwrap_none")
              ELSE ScanFrom([e EXCEPT !.loop_map =
                                Append(@, <<Last(start_stack), e.prog_ptr + pc>>)],
                            pc + 1, Front(start_stack))
    ELSE ScanFrom(e, pc + 1, start_stack)

(* The scan starts at the program counter, with an empty local stack.      *)
ScanStart(e) == e.prog_ptr

extend_loop_map(e) == ScanFrom(e, ScanStart(e), <<>>)

(* A variant of extend_prog that replaces the program by the new bytes.    *)
ExtendReplacing(e, new_prog) ==
    extend_loop_map([e EXCEPT !.prog = new_prog])

extend_prog(e, new_prog) ==
    extend_loop_map([e EXCEPT !.prog = @ \o new_prog])

(* ensure_allocated: Vec::resize(index, 0) when index >= len.  No function *)
(* of the source calls it.                                                 *)
ensure_allocated(e, index) ==
    IF index >= Len(e.mem)
    THEN [e EXCEPT !.mem = [i \in 1..index |->
                               IF i <= Len(e.mem) THEN e.mem[i] ELSE 0]]
    ELSE e

(* loop_map.iter().find(..): the index of the first pair whose component   *)
(* k (1: start, 2: end) is p, or 0 when find returns None.                 *)
Find(loop_map, k, p) ==
    LET hits == {i \in 1..Len(loop_map) : loop_map[i][k] = p}
    IN  IF hits = {} THEN 0
        ELSE CHOOSE i \in hits : \A j \in hits : i <= j

InBounds(e) == e.mem_ptr < Len(e.mem)

Cell(e) == At(e.mem, e.mem_ptr)

(* self.prog_ptr += 1, the last statement of step.                         *)
Advance(e) == [e EXCEPT !.prog_ptr = @ + 1]

(* b'>' => self.mem_ptr += 1                                               *)
StepRight(e, checks) ==
    IF e.mem_ptr = UsizeMax
    THEN IF checks THEN Panic(e, "overflow")
         ELSE Advance([e EXCEPT !.mem_ptr = 0])
    ELSE Advance([e EXCEPT !.mem_ptr = @ + 1])

(* b'<' => self.mem_ptr -= 1                                               *)
StepLeft(e, checks) ==
    IF e.mem_ptr = 0
    THEN IF checks THEN Panic(e, "overflow")
         ELSE Advance([e EXCEPT !.mem_ptr = UsizeMax])
    ELSE Advance([e EXCEPT !.mem_ptr = @ - 1])

(* A variant of StepAdd that saturates at 0 and 255 instead of wrapping.   *)
StepAddSaturating(e, d) ==
    IF ~InBounds(e) THEN Panic(e, "index_oob")
    ELSE Advance([e EXCEPT !.mem[e.mem_ptr + 1] =
                     IF d = 1 THEN (IF @ = U8Mod - 1 THEN @ ELSE @ + 1)
                     ELSE (IF @ = 0 THEN @ ELSE @ - 1)])

(* b'+' and b'-': wrapping_add(1), wrapping_sub(1) on the cell.            *)
StepAdd(e, d) ==
    IF ~InBounds(e) THEN Panic(e, "index_oob")
    ELSE Advance([e EXCEPT !.mem[e.mem_ptr + 1] = (@ + d) % U8Mod])

(* The bytes print!("{}", c as char) writes for a u8 c: "as char" makes c  *)
(* the code point U+0000..U+00FF, and Display writes its UTF-8 encoding,   *)
(* one byte below 128 and two bytes from 128 on.                           *)
Utf8(c) ==
    IF c < 128 THEN <<c>>
    ELSE <<192 + (c \div 64), 128 + (c % 64)>>

(* A variant of StepPrint that writes the cell as one raw byte.            *)
StepPrintByte(e) ==
    IF ~InBounds(e) THEN Panic(e, "index_oob")
    ELSE Advance([e EXCEPT !.stdout = Append(@, Cell(e))])

(* b'.' => print!("{}", cell as char); stdout is a sequence of bytes.      *)
StepPrint(e) ==
    IF ~InBounds(e) THEN Panic(e, "index_oob")
    ELSE Advance([e EXCEPT !.stdout = @ \o Utf8(Cell(e))])

(* b',' => todo!()                                                         *)
StepRead(e) == Panic(e, "todo")

(* A variant of StepOpen that never skips the loop.                        *)
StepOpenNoSkip(e) ==
    IF ~InBounds(e) THEN Panic(e, "index_oob") ELSE Advance(e)

(* b'[': on a zero cell, jump to the end of the first pair that starts     *)
(* here.                                                                   *)
StepOpen(e) ==
    IF ~InBounds(e) THEN Panic(e, "index_oob")
    ELSE IF Cell(e) = 0
         THEN LET i == Find(e.loop_map, 1, e.prog_ptr)
              IN  IF i = 0 THEN Panic(e, "unwrap_none")
                  ELSE Advance([e EXCEPT !.prog_ptr = e.loop_map[i][2]])
    ELSE Advance(e)

(* A variant of StepClose that never jumps back.                           *)
StepCloseNoJump(e) ==
    IF ~InBounds(e) THEN Panic(e, "index_oob") ELSE Advance(e)

(* b']': on a non-zero cell, jump to the start of the first pair that ends *)
(* here.                                                                   *)
StepClose(e) ==
    IF ~InBounds(e) THEN Panic(e, "index_oob")
    ELSE IF Cell(e) # 0
         THEN LET i == Find(e.loop_map, 2, e.prog_ptr)
              IN  IF i = 0 THEN Panic(e, "unwrap_none")
                  ELSE Advance([e EXCEPT !.prog_ptr = e.loop_map[i][1]])
    ELSE Advance(e)

Halted(e) == e.prog_ptr >= Len(e.prog)

(* The match of step on the instruction byte at prog_ptr, followed by the *)
(* increment of prog_ptr (each arm ends with Advance unless it panics).    *)
Dispatch(e, checks) ==
    LET b == At(e.prog, e.prog_ptr)
    IN  CASE b = ">" -> StepRight(e, checks)
          [] b = "<" -> StepLeft(e, checks)
          [] b = "+" -> StepAdd(e, 1)
          [] b = "-" -> StepAdd(e, U8Mod - 1)
          [] b = "." -> StepPrint(e)
          [] b = "," -> StepRead(e)
          [] b = "[" -> StepOpen(e)
          [] b = "]" -> StepClose(e)
          [] OTHER   -> Advance(e)

(* A variant of step without the early return of the halted state.         *)
StepPastEnd(e, checks) ==
    IF Halted(e) THEN Advance(e) ELSE Dispatch(e, checks)

(* BFInt::step, in a build with (checks) or without overflow checks.       *)
step(e, checks) ==
    IF Halted(e) THEN e ELSE Dispatch(e, checks)

(* BFInt::run: while self.prog_ptr < self.prog.len() { self.step() }.  A   *)
(* panic inside step ends the loop with the process.  A loop that is still *)
(* going after fuel iterations is recorded as "running" in the field       *)
(* panic: the call has not returned.                                       *)
RECURSIVE RunLoop(_, _, _)
RunLoop(e, checks, fuel) ==
    IF ~(e.prog_ptr < Len(e.prog)) \/ e.panic # "none" THEN e
    ELSE IF fuel = 0 THEN [e EXCEPT !.panic = "running"]
    ELSE RunLoop(step(e, checks), checks, fuel - 1)

(* A variant of run with "if" in the place of "while".                     *)
RunOnce(e, checks) == step(e, checks)

run(e, checks) == RunLoop(e, checks, RunFuel)

(***************************************************************************)
(* The driver.  The application owns one BFInt; it extends the program     *)
(* (main.rs, App::run) and calls step() once per press of "n" (main.rs,    *)
(* handle_events).  Chunks are the byte strings handed to extend_prog: the *)
(* one App::run passes, b"[->+<]", each opcode alone, a byte that is no    *)
(* opcode, and a few pieces with brackets.                                 *)
(***************************************************************************)
Chunks ==
    { <<"[", "-", ">", "+", "<", "]">>,
      <<"+">>, <<"-">>, <<">">>, <<"<">>, <<".">>, <<",">>, <<"[">>, <<"]">>,
      <<"x">>,
      <<"[", "]">>, <<"+", "[">>, <<"+", "x">>, <<"[", "-", "[", "]", "]">> }

(***************************************************************************)
(* TextEntry (widgets.rs).  text is a String: here the sequence of its     *)
(* chars, each char its code point; the String's bytes are the UTF-8 forms *)
(* of the chars in order, and String::len() counts bytes.                  *)
(***************************************************************************)
RECURSIVE StrLen(_)
StrLen(text) ==
    IF text = <<>> THEN 0
    ELSE Len(Utf8(text[1])) + StrLen(Tail(text))

(* TextEntry::new() and TextEntry::default().                              *)
TextEntryNew == [text |-> <<>>, cursor_pos |-> 0, panic |-> "none"]

take(f) == [f EXCEPT !.text = <<>>]

set_text(f, new_text) == [f EXCEPT !.text = new_text]

(* char_indices().map(|(i, _)| i).nth(cursor_pos).unwrap_or(text.len())    *)
byte_index(f) ==
    IF f.cursor_pos < Len(f.text)
    THEN StrLen(SubSeq(f.text, 1, f.cursor_pos))
    ELSE StrLen(f.text)

move_cursor_home(f) == [f EXCEPT !.cursor_pos = 0]

clear(f) == move_cursor_home([f EXCEPT !.text = <<>>])

move_cursor_left(f) ==
    IF f.cursor_pos > 0 THEN [f EXCEPT !.cursor_pos = @ - 1] ELSE f

move_cursor_end(f) == [f EXCEPT !.cursor_pos = StrLen(f.text)]

move_cursor_right(f) ==
    IF f.cursor_pos < StrLen(f.text) THEN [f EXCEPT !.cursor_pos = @ + 1] ELSE f

(* The numbers k of chars whose bytes end at byte offset idx: the char     *)
(* boundary idx, if it is one.                                             *)
CharsBefore(text, idx) ==
    {k \in 0..Len(text) : StrLen(SubSeq(text, 1, k)) = idx}

(* String::insert(idx, ch) panics unless idx is a char boundary.           *)
StringInsert(f, idx, c) ==
    IF CharsBefore(f.text, idx) = {} THEN [f EXCEPT !.panic = "char_boundary"]
    ELSE LET k == CHOOSE k \in CharsBefore(f.text, idx) : TRUE
         IN  [f EXCEPT !.text = SubSeq(@, 1, k) \o <<c>> \o SubSeq(@, k + 1, Len(@))]

(* String::remove(idx) panics unless a char starts at idx; idx = len() is  *)
(* "cannot remove a char from the end of a string".                        *)
StringRemove(f, idx) ==
    IF CharsBefore(f.text, idx) = {} THEN [f EXCEPT !.panic = "char_boundary"]
    ELSE LET k == CHOOSE k \in CharsBefore(f.text, idx) : TRUE
         IN  IF k = Len(f.text) THEN [f EXCEPT !.panic = "remove_at_end"]
             ELSE [f EXCEPT !.text = SubSeq(@, 1, k) \o SubSeq(@, k + 2, Len(@))]

insert(f, c) == move_cursor_right(StringInsert(f, byte_index(f), c))

remove(f) ==
    IF StrLen(f.text) = 0 THEN f
    ELSE IF f.cursor_pos = 0 THEN f
    ELSE LET g == move_cursor_left(f) IN StringRemove(g, byte_index(g))

Alive == interp.panic = "none"

Init ==
    /\ interp = New
    /\ whole = New
    /\ overflow_checks \in BOOLEAN
    /\ n_extend = 0
    /\ last = [op |-> "new", arg |-> <<>>, pre |-> New]
    /\ command_field = TextEntryNew

Extend(new_prog) ==
    /\ Alive
    /\ n_extend < MaxExtends
    /\ Len(interp.prog) + Len(new_prog) <= MaxProgLen
    /\ interp' = extend_prog(interp, new_prog)
    /\ n_extend' = n_extend + 1
    /\ last' = [op |-> "extend", arg |-> new_prog, pre |-> interp]
    /\ UNCHANGED <<whole, overflow_checks, command_field>>

StepKey ==
    /\ Alive
    /\ Len(interp.stdout) < MaxOut
    /\ interp' = step(interp, overflow_checks)
    /\ last' = [op |-> "step", arg |-> <<>>, pre |-> interp]
    /\ UNCHANGED <<whole, overflow_checks, n_extend, command_field>>

Next ==
    \/ \E c \in Chunks : Extend(c)
    \/ StepKey

Spec == Init /\ [][Next]_vars

(***************************************************************************)
(* The same program given in two pieces and in one.  interp receives       *)
(* extend_prog(a) and then extend_prog(b); whole receives a and b joined   *)
(* in a single call.  Then both are run: run() is the loop                 *)
(* "while prog_ptr < prog.len() { step() }", one iteration per SplitRun.   *)
(***************************************************************************)
Finished(e) == Halted(e) \/ e.panic # "none"

SplitFirst(a) ==
    /\ n_extend = 0
    /\ interp' = extend_prog(interp, a)
    /\ n_extend' = 1
    /\ last' = [op |-> "extend", arg |-> a, pre |-> interp]
    /\ UNCHANGED <<whole, overflow_checks, command_field>>

SplitSecond(b) ==
    /\ n_extend = 1
    /\ interp' = IF Alive THEN extend_prog(interp, b) ELSE interp
    /\ whole' = extend_prog(whole, interp.prog \o b)
    /\ n_extend' = 2
    /\ last' = [op |-> "extend", arg |-> b, pre |-> interp]
    /\ UNCHANGED <<overflow_checks, command_field>>

SplitRun ==
    /\ n_extend = 2
    /\ ~(Finished(interp) /\ Finished(whole))
    /\ Len(interp.stdout) < MaxOut
    /\ Len(whole.stdout) < MaxOut
    /\ interp' = IF Finished(interp) THEN interp
                 ELSE step(interp, overflow_checks)
    /\ whole' = IF Finished(whole) THEN whole
                ELSE step(whole, overflow_checks)
    /\ last' = [op |-> "step", arg |-> <<>>, pre |-> interp]
    /\ UNCHANGED <<overflow_checks, n_extend, command_field>>

SplitNext ==
    \/ \E a \in Chunks : SplitFirst(a)
    \/ \E b \in Chunks : SplitSecond(b)
    \/ SplitRun

SpecSplit == Init /\ [][SplitNext]_vars

TypeOK ==
    /\ interp.prog_ptr \in Nat
    /\ interp.mem_ptr \in Nat
    /\ \A i \in 1..Len(interp.mem) : interp.mem[i] \in 0..(U8Mod - 1)

(***************************************************************************)
(* Reference notions the claims are stated with.                           *)
(***************************************************************************)

(* The position of the "]" that closes, properly nested, a "[" whose body  *)
(* starts at i; -1 when the program ends first.                            *)
RECURSIVE CloseFrom(_, _, _)
CloseFrom(p, i, depth) ==
    IF i >= Len(p) THEN -1
    ELSE IF At(p, i) = "]"
         THEN IF depth = 0 THEN i ELSE CloseFrom(p, i + 1, depth - 1)
    ELSE IF At(p, i) = "[" THEN CloseFrom(p, i + 1, depth + 1)
    ELSE CloseFrom(p, i + 1, depth)

MatchingClose(p, o) == CloseFrom(p, o + 1, 0)

(* No "]" of p comes without an earlier unmatched "[".                     *)
RECURSIVE NoStrayCloseFrom(_, _, _)
NoStrayCloseFrom(p, i, depth) ==
    IF i >= Len(p) THEN TRUE
    ELSE IF At(p, i) = "]"
         THEN depth > 0 /\ NoStrayCloseFrom(p, i + 1, depth - 1)
    ELSE IF At(p, i) = "[" THEN NoStrayCloseFrom(p, i + 1, depth + 1)
    ELSE NoStrayCloseFrom(p, i + 1, depth)

NoStrayClose(p) == NoStrayCloseFrom(p, 0, 0)

(* The Loop Index of e answers o -> c and c -> o.                          *)
Maps(e, o, c) ==
    /\ Find(e.loop_map, 1, o) # 0
    /\ e.loop_map[Find(e.loop_map, 1, o)][2] = c
    /\ Find(e.loop_map, 2, c) # 0
    /\ e.loop_map[Find(e.loop_map, 2, c)][1] = o

(* The last operation was a step that executed instruction byte b.         *)
Stepped(b) ==
    /\ last.op = "step"
    /\ ~Halted(last.pre)
    /\ At(last.pre.prog, last.pre.prog_ptr) = b

(***************************************************************************)
(* C1.  After any interleaving of extend and step calls, every pair (o, c) *)
(* of the Loop Index has o < c < len(prog), prog[o] = "[", prog[c] = "]",  *)
(* and c is the properly nested match of o.                                *)
(***************************************************************************)
C1_LoopIndexValid ==
    Alive =>
        \A i \in 1..Len(interp.loop_map) :
            LET o == interp.loop_map[i][1]
                c == interp.loop_map[i][2]
            IN  /\ o < c
                /\ c < Len(interp.prog)
                /\ At(interp.prog, o) = "["
                /\ At(interp.prog, c) = "]"
                /\ MatchingClose(interp.prog, o) = c

(***************************************************************************)
(* C2.  When an extend call appends at q the "]" that matches a "[" at p   *)
(* which an earlier call left unmatched, the call does not fail and the    *)
(* Loop Index then maps p to q and q to p, whatever number of steps ran    *)
(* between the two calls.                                                  *)
(***************************************************************************)
C2_CrossCallMatch ==
    (last.op = "extend" /\ NoStrayClose(interp.prog)) =>
        \A p \in 0..(Len(last.pre.prog) - 1) :
            ( /\ At(interp.prog, p) = "["
              /\ MatchingClose(last.pre.prog, p) = -1
              /\ MatchingClose(interp.prog, p) # -1 )
            => /\ Alive
               /\ Maps(interp, p, MatchingClose(interp.prog, p))

(***************************************************************************)
(* C3.  extend(a); extend(b) on a fresh engine gives the same Loop Index   *)
(* as extend(a + b) and, once both have run, the same tape and output.     *)
(***************************************************************************)
C3_SplitSameAsWhole ==
    n_extend = 2 =>
        /\ interp.loop_map = whole.loop_map
        /\ (Finished(interp) /\ Finished(whole)) =>
               /\ interp.mem = whole.mem
               /\ interp.stdout = whole.stdout

(* What the two engines of C3 do share: the pairs of the Loop Index as a   *)
(* set, the answer of every lookup, and every field other than loop_map at *)
(* every moment of the two runs (when the first call already panics, the   *)
(* process is dead before the second piece is appended).                   *)
PairSet(e) == {e.loop_map[i] : i \in 1..Len(e.loop_map)}

SplitSameUpToRepeats ==
    (n_extend = 2 /\ interp.prog = whole.prog) =>
        /\ PairSet(interp) = PairSet(whole)
        /\ [interp EXCEPT !.loop_map = <<>>] = [whole EXCEPT !.loop_map = <<>>]

(***************************************************************************)
(* C4.  In every reachable state 0 <= prog_ptr <= len(prog).               *)
(***************************************************************************)
C4_PcInRange ==
    Alive => (0 <= interp.prog_ptr /\ interp.prog_ptr <= Len(interp.prog))

(***************************************************************************)
(* C5.  After every step that executes ">", len(mem) > mem_ptr, and no     *)
(* cell that existed before has changed.                                   *)
(***************************************************************************)
C5_RightKeepsCellAllocated ==
    (Stepped(">") /\ Alive) =>
        /\ Len(interp.mem) > interp.mem_ptr
        /\ Len(interp.mem) >= Len(last.pre.mem)
        /\ \A i \in 1..Len(last.pre.mem) : interp.mem[i] = last.pre.mem[i]

(***************************************************************************)
(* C6.  A step that executes "<" with mem_ptr = 0 is reported, not fatal:  *)
(* the process goes on, and mem_ptr stays 0, prog_ptr and the tape stay as *)
(* they were.                                                              *)
(***************************************************************************)
C6_UnderflowReported ==
    (Stepped("<") /\ last.pre.mem_ptr = 0) =>
        /\ Alive
        /\ interp.mem_ptr = 0
        /\ interp.prog_ptr = last.pre.prog_ptr
        /\ interp.mem = last.pre.mem

(***************************************************************************)
(* C7.  For the program "[" alone, on a zero cell, step does not abort the *)
(* process and leaves prog_ptr at the bracket.                             *)
(***************************************************************************)
C7_LoneOpenReported ==
    (last.op = "step" /\ last.pre.prog = <<"[">> /\ last.pre.prog_ptr = 0) =>
        /\ Alive
        /\ interp.prog_ptr = 0

(***************************************************************************)
(* C8.  A step at a "[" that has no indexed match never moves prog_ptr     *)
(* into the loop body, whatever the value of the current cell.             *)
(***************************************************************************)
C8_OpenLoopNotEntered ==
    (Stepped("[") /\ Find(last.pre.loop_map, 1, last.pre.prog_ptr) = 0) =>
        interp.prog_ptr = last.pre.prog_ptr

(***************************************************************************)
(* C9.  Neither an extend that scans a "]" with no unmatched "[" before it *)
(* nor a step at a "]" with no indexed match aborts the process.           *)
(***************************************************************************)
C9_UnmatchedCloseReported ==
    /\ (last.op = "extend" /\ ~NoStrayClose(interp.prog)) => Alive
    /\ (Stepped("]") /\ Find(last.pre.loop_map, 2, last.pre.prog_ptr) = 0)
           => Alive

(***************************************************************************)
(* C10.  A step that executes "," with no input left stores 0 in the cell  *)
(* at mem_ptr and advances prog_ptr by one, without failing.               *)
(***************************************************************************)
C10_ReadAtEndStoresZero ==
    Stepped(",") =>
        /\ Alive
        /\ InBounds(interp) /\ Cell(interp) = 0
        /\ interp.prog_ptr = last.pre.prog_ptr + 1

(***************************************************************************)
(* Arithmetic runs.  One extend_prog call loads a program made of "+" and  *)
(* "-" only, any such program up to ArithLen bytes, and the program is     *)
(* stepped to its end.  The cell wraps in both directions within two       *)
(* instructions: "-" takes 0 to 255 and a following "+" takes 255 to 0.    *)
(***************************************************************************)
ArithProgs == UNION {[1..k -> {"+", "-"}] : k \in 0..ArithLen}

ArithLoad(p) ==
    /\ n_extend = 0
    /\ interp' = extend_prog(interp, p)
    /\ n_extend' = 1
    /\ last' = [op |-> "extend", arg |-> p, pre |-> interp]
    /\ UNCHANGED <<whole, overflow_checks, command_field>>

ArithStep ==
    /\ n_extend = 1
    /\ ~Finished(interp)
    /\ interp' = step(interp, overflow_checks)
    /\ last' = [op |-> "step", arg |-> <<>>, pre |-> interp]
    /\ UNCHANGED <<whole, overflow_checks, n_extend, command_field>>

ArithNext ==
    \/ \E p \in ArithProgs : ArithLoad(p)
    \/ ArithStep

SpecArith == Init /\ [][ArithNext]_vars

(* How many of the first k instructions of e.prog are the byte b.          *)
Executed(e, k, b) == Cardinality({i \in 1..k : e.prog[i] = b})

(***************************************************************************)
(* C11.  After any number of "+" and "-" executed at data pointer 0 on a   *)
(* zero cell, the cell holds (number of "+" - number of "-") mod 256, the  *)
(* other cells are unchanged, 255 + 1 gives 0 and 0 - 1 gives 255.         *)
(***************************************************************************)
C11_CellIsDifferenceMod256 ==
    n_extend = 1 =>
        /\ Alive
        /\ interp.mem_ptr = 0
        /\ interp.mem[1] = (Executed(interp, interp.prog_ptr, "+")
                              - Executed(interp, interp.prog_ptr, "-")) % U8Mod
        /\ \A i \in 2..Len(interp.mem) : interp.mem[i] = 0
        /\ (Stepped("+") /\ Cell(last.pre) = U8Mod - 1) => Cell(interp) = 0
        /\ (Stepped("-") /\ Cell(last.pre) = 0) => Cell(interp) = U8Mod - 1

(* A "+" has just taken the cell from 255 to 0, after "-" had taken it     *)
(* from 0 to 255.                                                          *)
C11_Witness ==
    /\ n_extend = 1
    /\ Stepped("+")
    /\ Cell(last.pre) = U8Mod - 1
    /\ Cell(interp) = 0
    /\ Executed(interp, interp.prog_ptr, "-") > 0

(***************************************************************************)
(* Whole programs.  One extend_prog call loads a well-formed program into  *)
(* two fresh engines: whole then calls run(), interp is stepped by the     *)
(* driver until it halts or the process panics.                            *)
(***************************************************************************)
WellFormed(p) ==
    /\ NoStrayClose(p)
    /\ \A o \in 0..(Len(p) - 1) : At(p, o) = "[" => MatchingClose(p, o) # -1

(* The program of the scenario of spec section 8.                          *)
Scenario == <<"+", "+", ">", "+", "+", "+", "[", "-", "<", "+", ">", "]">>

RunProgs ==
    {p \in {a \o b : a \in Chunks \cup {<<>>}, b \in Chunks \cup {<<>>}} :
        WellFormed(p)} \cup {Scenario}

RunLoad(p) ==
    /\ n_extend = 0
    /\ interp' = extend_prog(interp, p)
    /\ whole' = run(extend_prog(whole, p), overflow_checks)
    /\ n_extend' = 1
    /\ last' = [op |-> "extend", arg |-> p, pre |-> interp]
    /\ UNCHANGED <<overflow_checks, command_field>>

RunStep ==
    /\ n_extend = 1
    /\ ~Finished(interp)
    /\ interp' = step(interp, overflow_checks)
    /\ last' = [op |-> "step", arg |-> <<>>, pre |-> interp]
    /\ UNCHANGED <<whole, overflow_checks, n_extend, command_field>>

RunNext ==
    \/ \E p \in RunProgs : RunLoad(p)
    \/ RunStep

SpecRun == Init /\ [][RunNext]_vars

(***************************************************************************)
(* C12.  For a well-formed program, once the driver's steps have halted    *)
(* the engine, run() has returned with the same output, tape, data         *)
(* pointer, program counter and program (unless the run is longer than     *)
(* the RunFuel iterations that are followed).                              *)
(***************************************************************************)
C12_RunIsRepeatedStep ==
    (n_extend = 1 /\ Alive /\ Halted(interp)) =>
        \/ whole.panic = "running"
        \/ /\ whole.panic = "none"
           /\ Halted(whole)
           /\ whole.stdout = interp.stdout
           /\ whole.mem = interp.mem
           /\ whole.mem_ptr = interp.mem_ptr
           /\ whole.prog_ptr = interp.prog_ptr
           /\ whole.prog = interp.prog

(* Both engines have halted after going round a loop: "+[->+<]" has moved  *)
(* the 1 of cell 0 to cell 1.                                              *)
C12_Witness ==
    /\ n_extend = 1 /\ Alive /\ Halted(interp)
    /\ whole.panic = "none" /\ Halted(whole)
    /\ interp.prog = <<"+", "[", "-", ">", "+", "<", "]">>
    /\ whole.mem[1] = 0 /\ whole.mem[2] = 1

(***************************************************************************)
(* C13.  The program ++>+++[-<+>] run from a fresh engine halts with cell  *)
(* 0 = 5, cell 1 = 0 and data pointer 1, under run() and under repeated    *)
(* step() alike.                                                           *)
(***************************************************************************)
ScenarioResult(e) ==
    /\ e.panic = "none"
    /\ e.prog_ptr = Len(e.prog)
    /\ e.mem[1] = 5
    /\ e.mem[2] = 0
    /\ e.mem_ptr = 1

C13_ScenarioResult ==
    (n_extend = 1 /\ interp.prog = Scenario) =>
        /\ ScenarioResult(whole)
        /\ Alive
        /\ Halted(interp) => ScenarioResult(interp)

C13_Witness ==
    /\ n_extend = 1
    /\ interp.prog = Scenario
    /\ Halted(interp)
    /\ ScenarioResult(interp)
    /\ ScenarioResult(whole)

(***************************************************************************)
(* C14.  In a well-formed program extended in one call, a step at "[" on a *)
(* zero cell leaves prog_ptr one past the matching "]", a step at "]" on a *)
(* non-zero cell leaves it one past the matching "[", and in the other two *)
(* cases prog_ptr advances by one; tape and data pointer are unchanged.    *)
(***************************************************************************)
MatchingOpen(p, c) ==
    CHOOSE o \in 0..(c - 1) : At(p, o) = "[" /\ MatchingClose(p, o) = c

C14_BracketJumps ==
    (n_extend = 1 /\ last.op = "step" /\ InBounds(last.pre)) =>
        /\ Stepped("[") =>
              /\ Alive
              /\ interp.mem = last.pre.mem
              /\ interp.mem_ptr = last.pre.mem_ptr
              /\ interp.prog_ptr =
                    IF Cell(last.pre) = 0
                    THEN MatchingClose(last.pre.prog, last.pre.prog_ptr) + 1
                    ELSE last.pre.prog_ptr + 1
        /\ Stepped("]") =>
              /\ Alive
              /\ interp.mem = last.pre.mem
              /\ interp.mem_ptr = last.pre.mem_ptr
              /\ interp.prog_ptr =
                    IF Cell(last.pre) # 0
                    THEN MatchingOpen(last.pre.prog, last.pre.prog_ptr) + 1
                    ELSE last.pre.prog_ptr + 1

(* A "]" on a non-zero cell has just jumped back into the loop body.       *)
C14_Witness ==
    /\ n_extend = 1
    /\ Stepped("]")
    /\ InBounds(last.pre)
    /\ Cell(last.pre) # 0
    /\ interp.prog_ptr < last.pre.prog_ptr
    /\ interp.prog_ptr = MatchingOpen(last.pre.prog, last.pre.prog_ptr) + 1

(***************************************************************************)
(* C15.  Each bracket position occurs in at most one pair of the Loop      *)
(* Index, and an extend call adds only pairs whose "]" lies in the byte    *)
(* range that the call appended.                                           *)
(***************************************************************************)
C15_NoRescan ==
    Alive =>
        /\ \A i, j \in 1..Len(interp.loop_map) :
              i # j => /\ interp.loop_map[i][1] # interp.loop_map[j][1]
                       /\ interp.loop_map[i][2] # interp.loop_map[j][2]
        /\ last.op = "extend" =>
              \A i \in (Len(last.pre.loop_map) + 1)..Len(interp.loop_map) :
                  /\ Len(last.pre.prog) <= interp.loop_map[i][2]
                  /\ interp.loop_map[i][2] < Len(interp.prog)

(***************************************************************************)
(* C16.  extend_prog makes the program the old program followed by the new *)
(* bytes and leaves prog_ptr, mem_ptr and the tape as they were; step      *)
(* leaves the program as it was.                                           *)
(***************************************************************************)
C16_AppendOnly ==
    /\ last.op = "extend" =>
          /\ interp.prog = last.pre.prog \o last.arg
          /\ interp.prog_ptr = last.pre.prog_ptr
          /\ interp.mem_ptr = last.pre.mem_ptr
          /\ interp.mem = last.pre.mem
    /\ last.op = "step" => interp.prog = last.pre.prog

(* An extend made in the middle of a run: the program was not empty, some  *)
(* of it had been executed and the tape had been written.                  *)
C16_Witness ==
    /\ last.op = "extend"
    /\ Len(last.arg) > 0
    /\ last.pre.prog_ptr > 0
    /\ last.pre.mem[1] # 0
    /\ interp.prog = last.pre.prog \o last.arg
    /\ Alive

(***************************************************************************)
(* C17.  A step in the halted state (prog_ptr >= len(prog)) changes        *)
(* nothing: prog_ptr, mem_ptr, tape, program, Loop Index and output.       *)
(***************************************************************************)
C17_HaltedStepIsNoOp ==
    (last.op = "step" /\ Halted(last.pre)) => interp = last.pre

(* A step was taken at the end of a program that had run and written.      *)
C17_Witness ==
    /\ last.op = "step"
    /\ Halted(last.pre)
    /\ last.pre.prog_ptr > 0
    /\ last.pre.mem[1] # 0
    /\ interp = last.pre

(***************************************************************************)
(* C19.  A step on a byte that is no opcode only advances prog_ptr by one, *)
(* and an extend of such bytes adds nothing to the Loop Index.             *)
(***************************************************************************)
Opcodes == {">", "<", "+", "-", ".", ",", "[", "]"}

C19_OtherBytesNoOp ==
    /\ (last.op = "step" /\ ~Halted(last.pre)
          /\ At(last.pre.prog, last.pre.prog_ptr) \notin Opcodes)
       => interp = [last.pre EXCEPT !.prog_ptr = @ + 1]
    /\ (last.op = "extend"
          /\ \A i \in 1..Len(last.arg) : last.arg[i] \notin Opcodes)
       => interp.loop_map = last.pre.loop_map

(***************************************************************************)
(* Printing every cell value.  The driver writes a value into cell 0 (as   *)
(* App::run does with self.interp.mem[0] = 7), loads "." and steps.        *)
(***************************************************************************)
PrintPoke(n) ==
    /\ n_extend = 0
    /\ last.op = "new"
    /\ interp' = [interp EXCEPT !.mem[1] = n]
    /\ last' = [op |-> "poke", arg |-> <<n>>, pre |-> interp]
    /\ UNCHANGED <<whole, overflow_checks, n_extend, command_field>>

PrintLoad ==
    /\ n_extend = 0
    /\ last.op = "poke"
    /\ interp' = extend_prog(interp, <<".">>)
    /\ n_extend' = 1
    /\ last' = [op |-> "extend", arg |-> <<".">>, pre |-> interp]
    /\ UNCHANGED <<whole, overflow_checks, command_field>>

PrintStep ==
    /\ n_extend = 1
    /\ ~Finished(interp)
    /\ interp' = step(interp, overflow_checks)
    /\ last' = [op |-> "step", arg |-> <<>>, pre |-> interp]
    /\ UNCHANGED <<whole, overflow_checks, n_extend, command_field>>

PrintNext ==
    \/ \E n \in 0..(U8Mod - 1) : PrintPoke(n)
    \/ PrintLoad
    \/ PrintStep

SpecPrint == Init /\ [][PrintNext]_vars

AddProg == <<"[", "-", ">", "+", "<", "]">>

AddResult(e, n, m) ==
    [e EXCEPT !.mem[1] = 0, !.mem[2] = (m + n) % U8Mod, !.mem_ptr = 0,
              !.prog_ptr = Len(e.prog)]

AddPoke ==
    /\ n_extend = 0
    /\ last.op = "new"
    /\ \E n, m \in 0..(U8Mod - 1) :
          /\ interp' = extend_prog([interp EXCEPT !.mem[1] = n, !.mem[2] = m],
                                   AddProg)
          /\ whole' = AddResult(interp', n, m)
    /\ n_extend' = 1
    /\ last' = [op |-> "extend", arg |-> AddProg, pre |-> interp]
    /\ UNCHANGED <<overflow_checks, command_field>>

AddStep ==
    /\ n_extend = 1
    /\ ~Finished(interp)
    /\ interp' = step(interp, overflow_checks)
    /\ last' = [op |-> "step", arg |-> <<>>, pre |-> interp]
    /\ UNCHANGED <<whole, overflow_checks, n_extend, command_field>>

AddNext ==
    \/ AddPoke
    \/ AddStep

SpecAdd == Init /\ [][AddNext]_vars

(* The number of steps the addition program has left before it halts.      *)
StepsLeft(e) ==
    IF e.prog_ptr >= Len(e.prog) THEN 0
    ELSE IF e.prog_ptr = 0 THEN 1 + 5 * e.mem[1]
    ELSE IF e.prog_ptr = 1 THEN 5 * e.mem[1]
    ELSE (Len(e.prog) - e.prog_ptr) + 5 * e.mem[1]

(***************************************************************************)
(* C20.  [->+<] started with cell 0 = n and cell 1 = m, for all n and m in *)
(* 0..255, halts (each step brings the end one step nearer and none        *)
(* fails) with cell 0 = 0, cell 1 = (m + n) mod 256 and mem_ptr = 0; with  *)
(* n = 0 it halts after one step and the tape is as it was.                *)
(***************************************************************************)
C20_AddLoop ==
    n_extend = 1 =>
        /\ Alive
        /\ (last.op = "step" /\ ~Halted(last.pre)) =>
              StepsLeft(interp) = StepsLeft(last.pre) - 1
        /\ Halted(interp) =>
              /\ interp.mem = whole.mem
              /\ interp.mem_ptr = whole.mem_ptr
              /\ interp.mem[1] = 0
              /\ interp.mem_ptr = 0
        /\ (last.op = "step" /\ last.pre.prog_ptr = 0 /\ last.pre.mem[1] = 0) =>
              /\ Halted(interp)
              /\ interp.mem = last.pre.mem

(* The loop has run to its end with a sum that passed 255: cell 1 is 0     *)
(* after the last "]".                                                     *)
C20_Witness ==
    /\ n_extend = 1
    /\ Halted(interp)
    /\ last.op = "step"
    /\ last.pre.prog_ptr = Len(AddProg) - 1
    /\ interp.mem[2] = 0
    /\ interp.mem_ptr = 0

(***************************************************************************)
(* The command field.  The driver calls the public operations of the       *)
(* TextEntry in any order, as the key handlers of App do, with chars of    *)
(* one and of two UTF-8 bytes.                                             *)
(***************************************************************************)
MaxText == 3

EntryChars == {97, 233}

EntryTexts == UNION {[1..k -> EntryChars] : k \in 0..MaxText}

EntryAlive == command_field.panic = "none"

EntryInsert ==
    /\ EntryAlive
    /\ Len(command_field.text) < MaxText
    /\ \E c \in EntryChars :
          /\ command_field' = insert(command_field, c)
          /\ last' = [op |-> "insert", arg |-> <<c>>, pre |-> command_field]
    /\ UNCHANGED <<interp, whole, overflow_checks, n_extend>>

EntrySetText ==
    /\ EntryAlive
    /\ \E t \in EntryTexts :
          /\ command_field' = set_text(command_field, t)
          /\ last' = [op |-> "set_text", arg |-> t, pre |-> command_field]
    /\ UNCHANGED <<interp, whole, overflow_checks, n_extend>>

EntryRemove ==
    /\ EntryAlive
    /\ command_field' = remove(command_field)
    /\ last' = [op |-> "remove", arg |-> <<>>, pre |-> command_field]
    /\ UNCHANGED <<interp, whole, overflow_checks, n_extend>>

EntryLeft ==
    /\ EntryAlive
    /\ command_field' = move_cursor_left(command_field)
    /\ last' = [op |-> "move_cursor_left", arg |-> <<>>, pre |-> command_field]
    /\ UNCHANGED <<interp, whole, overflow_checks, n_extend>>

EntryRight ==
    /\ EntryAlive
    /\ command_field' = move_cursor_right(command_field)
    /\ last' = [op |-> "move_cursor_right", arg |-> <<>>, pre |-> command_field]
    /\ UNCHANGED <<interp, whole, overflow_checks, n_extend>>

EntryHome ==
    /\ EntryAlive
    /\ command_field' = move_cursor_home(command_field)
    /\ last' = [op |-> "move_cursor_home", arg |-> <<>>, pre |-> command_field]
    /\ UNCHANGED <<interp, whole, overflow_checks, n_extend>>

EntryEnd ==
    /\ EntryAlive
    /\ command_field' = move_cursor_end(command_field)
    /\ last' = [op |-> "move_cursor_end", arg |-> <<>>, pre |-> command_field]
    /\ UNCHANGED <<interp, whole, overflow_checks, n_extend>>

EntryClear ==
    /\ EntryAlive
    /\ command_field' = clear(command_field)
    /\ last' = [op |-> "clear", arg |-> <<>>, pre |-> command_field]
    /\ UNCHANGED <<interp, whole, overflow_checks, n_extend>>

EntryTake ==
    /\ EntryAlive
    /\ command_field' = take(command_field)
    /\ last' = [op |-> "take", arg |-> <<>>, pre |-> command_field]
    /\ UNCHANGED <<interp, whole, overflow_checks, n_extend>>

EntryNext ==
    \/ EntryInsert
    \/ EntryRemove
    \/ EntryLeft
    \/ EntryRight
    \/ EntryHome
    \/ EntryEnd
    \/ EntryClear
    \/ EntrySetText
    \/ EntryTake

SpecEntry == Init /\ [][EntryNext]_vars

(***************************************************************************)
(* C21.  After any sequence of the public TextEntry operations cursor_pos  *)
(* never exceeds the number of chars of the text, so remove() with a       *)
(* non-empty text and cursor_pos > 0 deletes the char just before the      *)
(* cursor and never addresses a position at or past the end of the text.   *)
(***************************************************************************)
C21_CursorWithinText ==
    /\ EntryAlive
    /\ command_field.cursor_pos <= Len(command_field.text)
    /\ (last.op = "remove" /\ Len(last.pre.text) > 0 /\ last.pre.cursor_pos > 0) =>
          /\ last.pre.cursor_pos <= Len(last.pre.text)
          /\ command_field.cursor_pos = last.pre.cursor_pos - 1
          /\ command_field.text =
                SubSeq(last.pre.text, 1, last.pre.cursor_pos - 1)
                \o SubSeq(last.pre.text, last.pre.cursor_pos + 1, Len(last.pre.text))

=============================================================================
